---- MODULE Spec2Model ----
(***************************************************************************)
(* Model of the web-asset compiler (src/web/build/generate_pages.py) and   *)
(* of the route matcher findPage() that it writes into page_router.cpp.    *)
(*                                                                         *)
(* A character is a one-character string, a string a sequence of           *)
(* characters, a byte an integer in 0..255.  The asset directory, the      *)
(* clock read by gzip.compress() and the three generated files are the     *)
(* state; one compiler run and one findPage() call are the actions.        *)
(***************************************************************************)
EXTENDS Integers, Sequences, FiniteSets, TLC

(* ------------------------------ bounds --------------------------------- *)
\* most entries in a directory assembled from CoreNames
MaxFiles == 2
\* most infix segments between stem and extension of a generated filename
MaxMarkers == 2
\* longest raw file content of the content-rich directories
MaxRawLen == 2
\* last value (seconds) the clock takes
MaxTime == 1

(* ---------------------------- characters ------------------------------- *)
LowerLetters ==
  <<"a","b","c","d","e","f","g","h","i","j","k","l","m",
    "n","o","p","q","r","s","t","u","v","w","x","y","z">>

UpperLetters ==
  <<"A","B","C","D","E","F","G","H","I","J","K","L","M",
    "N","O","P","Q","R","S","T","U","V","W","X","Y","Z">>

IsLower(c) == \E i \in 1..Len(LowerLetters) : LowerLetters[i] = c

IsUpper(c) == \E i \in 1..Len(UpperLetters) : UpperLetters[i] = c

LetterIndex(letters, c) == CHOOSE i \in 1..Len(letters) : letters[i] = c

Chars ==
  {"-", ".", "/", "_"} \cup { LowerLetters[i] : i \in 1..Len(LowerLetters) }
                       \cup { UpperLetters[i] : i \in 1..Len(UpperLetters) }

\* code point of a character: Python compares str by code point
OrdTable ==
  [c \in Chars |->
     IF c = "-" THEN 45
     ELSE IF c = "." THEN 46
     ELSE IF c = "/" THEN 47
     ELSE IF c = "_" THEN 95
     ELSE IF IsUpper(c) THEN 64 + LetterIndex(UpperLetters, c)
     ELSE 96 + LetterIndex(LowerLetters, c)]

Ord(c) == OrdTable[c]

\* str.upper() / str.lower() on one character
UpperTable ==
  [c \in Chars |-> IF IsLower(c) THEN UpperLetters[LetterIndex(LowerLetters, c)] ELSE c]

LowerTable ==
  [c \in Chars |-> IF IsUpper(c) THEN LowerLetters[LetterIndex(UpperLetters, c)] ELSE c]

ToUpper(c) == UpperTable[c]

ToLower(c) == LowerTable[c]

Upper(s) == [i \in 1..Len(s) |-> ToUpper(s[i])]

Lower(s) == [i \in 1..Len(s) |-> ToLower(s[i])]

(* ------------------------------ strings -------------------------------- *)
\* s[i : i+len(sub)] == sub, 1-based
MatchAt(s, sub, i) ==
  /\ i >= 1
  /\ i + Len(sub) - 1 <= Len(s)
  /\ SubSeq(s, i, i + Len(sub) - 1) = sub

\* str.find from position i: the scan that `sub in s` and str.replace use;
\* 0 when there is no occurrence at or after i
RECURSIVE FindFrom(_, _, _)
FindFrom(s, sub, i) ==
  IF i + Len(sub) - 1 > Len(s) THEN 0
  ELSE IF MatchAt(s, sub, i) THEN i
  ELSE FindFrom(s, sub, i + 1)

\* Python `sub in s`
Contains(s, sub) == FindFrom(s, sub, 1) # 0

\* Python s.replace(old, new): every non-overlapping occurrence, left to
\* right, the text after an occurrence scanned on, the result never rescanned
RECURSIVE ReplaceFrom(_, _, _, _)
ReplaceFrom(s, old, new, i) ==
  LET p == FindFrom(s, old, i) IN
    IF p = 0 THEN SubSeq(s, i, Len(s))
    ELSE SubSeq(s, i, p - 1) \o new \o ReplaceFrom(s, old, new, p + Len(old))

Replace(s, old, new) == ReplaceFrom(s, old, new, 1)

\* str.rfind of one character, 1-based, 0 when absent
RECURSIVE RFind(_, _, _)
RFind(s, c, i) ==
  IF i = 0 THEN 0 ELSE IF s[i] = c THEN i ELSE RFind(s, c, i - 1)

\* pathlib's PurePath.suffix: the last dot and what follows it, unless that
\* dot is the first or the last character of the name
Suffix(name) ==
  LET p == RFind(name, ".", Len(name)) IN
    IF 1 < p /\ p < Len(name) THEN SubSeq(name, p, Len(name)) ELSE <<>>

\* lexicographic str comparison a < b
RECURSIVE StrLess(_, _)
StrLess(a, b) ==
  IF b = <<>> THEN FALSE
  ELSE IF a = <<>> THEN TRUE
  ELSE IF Head(a) = Head(b) THEN StrLess(Tail(a), Tail(b))
  ELSE Ord(Head(a)) < Ord(Head(b))

(* ------------------------ literals of the script ----------------------- *)
DotHtml == <<".","h","t","m","l">>

DotCss == <<".","c","s","s">>

DotJs == <<".","j","s">>

IndexHtml == <<"i","n","d","e","x">> \o DotHtml

DotNogz == <<".","n","o","g","z">>

DotNogzDot == DotNogz \o <<".">>

GzSuffix == <<"_","G","Z">>

TextHtml == "text/html"

TextCss == "text/css"

ApplicationJavascript == "application/javascript"

\* the MIME dict: its keys, and the lookup MIME[ext]
MimeKeys == {DotHtml, DotCss, DotJs}

MIME(ext) ==
  IF ext = DotHtml THEN TextHtml
  ELSE IF ext = DotCss THEN TextCss
  ELSE ApplicationJavascript

(* ------------------------- helpers of the script ----------------------- *)
\* mutant of symbol: built from the stem (the name without its suffix)
symbolOfStem(name) ==
  LET stem == SubSeq(name, 1, Len(name) - Len(Suffix(name))) IN
    Replace(Replace(Upper(stem), <<".">>, <<"_">>), <<"-">>, <<"_">>)

\* symbol(name): name.upper().replace(".", "_").replace("-", "_")
symbol(name) == Replace(Replace(Upper(name), <<".">>, <<"_">>), <<"-">>, <<"_">>)

\* is_nogz(filename): ".nogz." in filename
is_nogz(filename) == Contains(filename, DotNogzDot)

(* --------------------------- gzip.compress ----------------------------- *)
\* struct.pack("<L", n)
LE32(n) ==
  <<n % 256, (n \div 256) % 256, (n \div 65536) % 256, (n \div 16777216) % 256>>

\* length of the run of equal bytes that starts at the head of raw, at most 255
RECURSIVE RunLen(_, _)
RunLen(raw, b) ==
  IF raw = <<>> \/ Head(raw) # b THEN 0
  ELSE LET r == RunLen(Tail(raw), b) IN IF r >= 255 THEN 255 ELSE r + 1

\* The deflate stream is the work of zlib, outside this repository: it is
\* modelled as a lossless run-length code (count, byte), which like deflate
\* changes the length of the data and is undone only by its decoder.
RECURSIVE Deflate(_)
Deflate(raw) ==
  IF raw = <<>> THEN <<0>>
  ELSE LET n == RunLen(raw, Head(raw)) IN
         <<n, Head(raw)>> \o Deflate(SubSeq(raw, n + 1, Len(raw)))

\* stand-in for zlib.crc32: a checksum of the raw bytes (modulus 65521, so
\* that every intermediate value stays inside TLC's 32-bit integers)
RECURSIVE Crc32(_)
Crc32(raw) ==
  IF raw = <<>> THEN 0 ELSE (Crc32(Tail(raw)) * 31 + Head(raw) + 1) % 65521

\* gzip.compress(raw, compresslevel=9) called without mtime: the ten-byte
\* header carries the clock's value (mtime=None means time.time()), XFL=2
\* for level 9 and OS=255; the trailer is CRC32 and ISIZE (len(data) &
\* 0xffffffff, which is len(data) for every length TLC can represent)
GzipCompress(raw, mtime) ==
  <<31, 139, 8, 0>> \o LE32(mtime) \o <<2, 255>>
    \o Deflate(raw)
    \o LE32(Crc32(raw)) \o LE32(Len(raw))

(* -------------------------------- gen() -------------------------------- *)
\* mutant of PageUrl: str.replace(old, new, 1) removes the first marker only
PageUrlFirstOnly(name) ==
  LET p == FindFrom(name, DotNogz, 1) IN
    IF name = IndexHtml THEN <<"/">>
    ELSE IF p = 0 THEN <<"/">> \o name
    ELSE <<"/">> \o SubSeq(name, 1, p - 1) \o SubSeq(name, p + Len(DotNogz), Len(name))

\* url = "/" if f.name == "index.html" else f"/{f.name.replace('.nogz', '')}"
PageUrl(name) ==
  IF name = IndexHtml THEN <<"/">> ELSE <<"/">> \o Replace(name, DotNogz, <<>>)

\* mutant of PageData: compresses whatever the flag says
PageDataAlwaysGzip(raw, gzip_enabled, mtime) == GzipCompress(raw, mtime)

\* data = gzip.compress(raw, compresslevel=9) if gzip_enabled else raw
PageData(raw, gzip_enabled, mtime) ==
  IF gzip_enabled THEN GzipCompress(raw, mtime) ELSE raw

\* symbol(f.name) + ("_GZ" if gzip_enabled else "")
PageSymbol(name, gzip_enabled) ==
  symbol(name) \o (IF gzip_enabled THEN GzSuffix ELSE <<>>)

\* one iteration of the loop body for a qualifying file f
Page(f, mtime) ==
  LET gzip_enabled == ~is_nogz(f.name)
      data == PageData(f.raw, gzip_enabled, mtime)
  IN [url |-> PageUrl(f.name),
      symbol |-> PageSymbol(f.name, gzip_enabled),
      data |-> data,
      len |-> Len(data),
      mime |-> MIME(Lower(Suffix(f.name))),
      gzip |-> gzip_enabled]

\* the two `continue` tests at the head of the loop body
Qualifies(f) == f.isFile /\ Lower(Suffix(f.name)) \in MimeKeys

\* the for loop over the sorted entries
RECURSIVE GenPages(_, _)
GenPages(files, mtime) ==
  IF files = <<>> THEN <<>>
  ELSE IF ~Qualifies(Head(files)) THEN GenPages(Tail(files), mtime)
  ELSE <<Page(Head(files), mtime)>> \o GenPages(Tail(files), mtime)

\* sorted(WEB.iterdir()): the entries of one directory ordered by name
RECURSIVE Insert(_, _)
Insert(f, sortedFiles) ==
  IF sortedFiles = <<>> THEN <<f>>
  ELSE IF StrLess(f.name, Head(sortedFiles).name) THEN <<f>> \o sortedFiles
  ELSE <<Head(sortedFiles)>> \o Insert(f, Tail(sortedFiles))

\* mutant of Sorted: the entries in the order iterdir() yields them
Unsorted(listing) == listing

RECURSIVE Sorted(_)
Sorted(listing) ==
  IF listing = <<>> THEN <<>> ELSE Insert(Head(listing), Sorted(Tail(listing)))

\* web_pages.h: one pair of extern declarations per page
WebPagesH(pages) == [i \in 1..Len(pages) |-> pages[i].symbol]

\* web_pages.cpp: one byte array and one _LEN constant per page
WebPagesCpp(pages) ==
  [i \in 1..Len(pages) |->
     [symbol |-> pages[i].symbol, data |-> pages[i].data, len |-> pages[i].len]]

\* page_router.cpp: the rows of `static const Page pages[]`
PageRouterCpp(pages) ==
  [i \in 1..Len(pages) |->
     [path |-> pages[i].url, symbol |-> pages[i].symbol,
      mime |-> pages[i].mime, gzip |-> pages[i].gzip]]

(* ------------------------------ findPage ------------------------------- *)
\* strchr(ppath, '.'): 1-based position of the first dot, 0 for NULL
Strchr(s, c) == FindFrom(s, <<c>>, 1)

\* memcmp(a, b, n) == 0
MemEq(a, b, n) == SubSeq(a, 1, n) = SubSeq(b, 1, n)

\* the loop of findPage from row k on: the row returned, 0 for nullptr
RECURSIVE FindPageFrom(_, _, _)
FindPageFrom(table, path, k) ==
  IF k > Len(table) THEN 0
  ELSE LET ppath == table[k].path
           plen == Len(path)
           flen == Len(ppath)
           dot == Strchr(ppath, ".")
           baseLen == dot - 1
       IN IF plen = flen /\ MemEq(path, ppath, plen) THEN k
          ELSE IF dot = 0 THEN FindPageFrom(table, path, k + 1)
          ELSE IF plen = baseLen /\ MemEq(path, ppath, baseLen) THEN k
          ELSE FindPageFrom(table, path, k + 1)

\* mutant of findPage: the scan runs from the last row to the first
RECURSIVE FindPageDown(_, _, _)
FindPageDown(table, path, k) ==
  IF k = 0 THEN 0
  ELSE IF FindPageFrom(<<table[k]>>, path, 1) = 1 THEN k
  ELSE FindPageDown(table, path, k - 1)

findPageReverse(table, path) == FindPageDown(table, path, Len(table))

\* mutant of findPage: the exact match compares plen bytes and forgets
\* plen == flen
RECURSIVE FindPagePrefixFrom(_, _, _)
FindPagePrefixFrom(table, path, k) ==
  IF k > Len(table) THEN 0
  ELSE IF Len(path) <= Len(table[k].path) /\ MemEq(path, table[k].path, Len(path)) THEN k
  ELSE IF FindPageFrom(<<table[k]>>, path, 1) = 1 THEN k
  ELSE FindPagePrefixFrom(table, path, k + 1)

findPagePrefix(table, path) == FindPagePrefixFrom(table, path, 1)

findPage(table, path) == FindPageFrom(table, path, 1)

(* ------------------------------- inputs -------------------------------- *)
Foo == <<"f","o","o">>

DotPng == <<".","p","n","g">>

\* filenames whose directories are explored in combination
CoreNames ==
  { IndexHtml,
    Foo \o DotCss,
    Foo \o DotJs,
    Foo \o DotNogz \o DotJs,
    <<"a","-","b">> \o DotJs,
    <<"a","_","b">> \o DotJs,
    <<"B",".","J","S">>,
    <<".","a">> \o DotJs,
    <<"b">> \o DotPng }

\* stems, infix segments and extensions of the generated filenames
Stems == { <<>>, <<"a">>, <<"i","n","d","e","x">> }

Segments == { DotNogz, <<".","n","o">>, <<"g","z">> }

Extensions == { DotHtml, DotJs, <<".","J","s">>, <<".">>, <<>> }

\* every concatenation of at most n segments
RECURSIVE Infixes(_)
Infixes(n) ==
  IF n = 0 THEN { <<>> }
  ELSE Infixes(n - 1) \cup { i \o g : i \in Infixes(n - 1), g \in Segments }

GeneratedNames ==
  { n \in { s \o i \o e : s \in Stems, i \in Infixes(MaxMarkers), e \in Extensions } :
      n # <<>> }

Bytes == { 0, 1 }

\* every byte string of length at most n
RECURSIVE ByteStrings(_)
ByteStrings(n) ==
  IF n = 0 THEN { <<>> }
  ELSE ByteStrings(n - 1) \cup { r \o <<b>> : r \in ByteStrings(n - 1), b \in Bytes }

\* the content given to the files whose names are what varies
SampleRaw == <<1, 1, 0>>

File(name, raw) == [name |-> name, isFile |-> TRUE, raw |-> raw]

SubDir(name) == [name |-> name, isFile |-> FALSE, raw |-> <<>>]

\* names of sub-directories: one that looks like an asset, one that does not
SubDirNames == { Foo \o DotCss, <<"l","i","b">> }

CoreEntries == { File(n, SampleRaw) : n \in CoreNames } \cup { SubDir(n) : n \in SubDirNames }

\* every set of at most n core entries with pairwise distinct names
RECURSIVE CoreDirs(_)
CoreDirs(n) ==
  IF n = 0 THEN { {} }
  ELSE CoreDirs(n - 1) \cup
       UNION { { d \cup {e} : e \in { x \in CoreEntries : \A y \in d : y.name # x.name } } :
                 d \in CoreDirs(n - 1) }

\* one-file directories: every generated name, and every content
NameDirs == { { File(n, SampleRaw) } : n \in GeneratedNames }

DataDirs ==
  { { File(n, r) } : n \in { Foo \o DotJs, Foo \o DotNogz \o DotJs },
                     r \in ByteStrings(MaxRawLen) }

Directories == CoreDirs(MaxFiles) \cup NameDirs \cup DataDirs

\* the generated files checked into the repository by an earlier build
PreGenerated ==
  GenPages(Sorted(<<File(IndexHtml, <<>>), File(Foo \o DotNogz \o DotJs, <<0>>)>>), 0)

\* request paths beside the URLs and extensionless prefixes of the table
ExtraPaths == { <<>>, <<"/">>, <<"/">> \o Foo, <<"/","m","i","s","s">> }

(* -------------------------------- state -------------------------------- *)
VARIABLES
  web,        \* src/web/build: [exists, entries]
  now,        \* the clock (whole seconds) at the last generating run
  pagesH,     \* src/web_pages.h
  pagesCpp,   \* src/web_pages.cpp
  routerCpp,  \* src/page_router.cpp: the rows of pages[]
  exitCode,   \* exit status of the last compiler run, -1 before the first
  warned,     \* whether the last run printed the skip warning
  lastPath,   \* argument of the last findPage call
  lastResult  \* its result: a row of pages[], 0 for nullptr, -1 before the first

vars == <<web, now, pagesH, pagesCpp, routerCpp, exitCode, warned, lastPath, lastResult>>

Init ==
  /\ web \in { [exists |-> FALSE, entries |-> {}] }
               \cup { [exists |-> TRUE, entries |-> d] : d \in Directories }
  /\ now = 0
  /\ pagesH = WebPagesH(PreGenerated)
  /\ pagesCpp = WebPagesCpp(PreGenerated)
  /\ routerCpp = PageRouterCpp(PreGenerated)
  /\ exitCode = -1
  /\ warned = FALSE
  /\ lastPath = <<>>
  /\ lastResult = -1

(* ------------------------------- actions ------------------------------- *)
\* mutant of NoMinifiedFiles: only `not WEB.exists()`
DirectoryMissing == ~web.exists

\* mutant of NoMinifiedFiles: skips whenever no entry would yield a page
NoQualifyingFiles == ~web.exists \/ \A e \in web.entries : ~Qualifies(e)

\* `not WEB.exists() or not any(WEB.iterdir())`
NoMinifiedFiles == ~web.exists \/ web.entries = {}

\* the orders in which WEB.iterdir() may yield the entries
Enumerations(entries) ==
  { l \in [1..Cardinality(entries) -> entries] :
      \A i, j \in 1..Cardinality(entries) : i # j => l[i] # l[j] }

\* gen(): the pages list, then the three files written from it
Gen(listing, mtime) ==
  LET pages == GenPages(Sorted(listing), mtime) IN
    /\ pagesH' = WebPagesH(pages)
    /\ pagesCpp' = WebPagesCpp(pages)
    /\ routerCpp' = PageRouterCpp(pages)

\* one run of generate_pages.py; gzip.compress reads the clock, which never
\* runs backwards (a run is short: all its files get the same second)
RunCompiler ==
  /\ IF NoMinifiedFiles
       THEN /\ warned' = TRUE
            /\ UNCHANGED <<now, pagesH, pagesCpp, routerCpp>>
       ELSE /\ warned' = FALSE
            /\ \E listing \in Enumerations(web.entries), mtime \in now..MaxTime :
                 /\ now' = mtime
                 /\ Gen(listing, mtime)
  /\ exitCode' = 0
  /\ UNCHANGED <<web, lastPath, lastResult>>

\* prefix of a URL before its first dot (the URL itself when it has none)
Base(url) == IF Strchr(url, ".") = 0 THEN url ELSE SubSeq(url, 1, Strchr(url, ".") - 1)

RequestPaths ==
  ExtraPaths \cup { routerCpp[k].path : k \in 1..Len(routerCpp) }
             \cup { Base(routerCpp[k].path) : k \in 1..Len(routerCpp) }

\* the firmware built from page_router.cpp serves one request
Lookup ==
  /\ \E path \in RequestPaths :
       /\ lastPath' = path
       /\ lastResult' = findPage(routerCpp, path)
  /\ UNCHANGED <<web, now, pagesH, pagesCpp, routerCpp, exitCode, warned>>

Next == RunCompiler \/ Lookup

Spec == Init /\ [][Next]_vars

(* ------------------------- vocabulary of the claims -------------------- *)
\* the last completed run took the generating branch
Generated == exitCode = 0 /\ ~warned

\* a is before b in ascending filename order
NameBefore(a, b) ==
  \E i \in 1..Len(b) :
    /\ i <= Len(a) + 1
    /\ SubSeq(a, 1, i - 1) = SubSeq(b, 1, i - 1)
    /\ (i = Len(a) + 1 \/ Ord(a[i]) < Ord(b[i]))

\* the name is a non-empty stem, a dot and exactly the extension ext
HasExtension(name, ext) ==
  /\ Len(name) > Len(ext) + 1
  /\ SubSeq(name, Len(name) - Len(ext), Len(name)) = <<".">> \o ext

\* the same, the letters of the extension in any case
HasExtensionAnyCase(name, ext) ==
  /\ Len(name) > Len(ext) + 1
  /\ name[Len(name) - Len(ext)] = "."
  /\ \A i \in 1..Len(ext) : ToLower(name[Len(name) - Len(ext) + i]) = ext[i]

AssetExtensions == { <<"h","t","m","l">>, <<"c","s","s">>, <<"j","s">> }

MimeOf(ext) ==
  IF ext = <<"h","t","m","l">> THEN "text/html"
  ELSE IF ext = <<"c","s","s">> THEN "text/css"
  ELSE "application/javascript"

\* regular files with one of the three extensions, spelled in lower case
AssetsExactCase ==
  { e \in web.entries : e.isFile /\ \E x \in AssetExtensions : HasExtension(e.name, x) }

\* regular files with one of the three extensions, in any letter case
AssetsAnyCase ==
  { e \in web.entries : e.isFile /\ \E x \in AssetExtensions : HasExtensionAnyCase(e.name, x) }

\* position of e among the files of S in ascending filename order
RankIn(S, e) == 1 + Cardinality({ x \in S : NameBefore(x.name, e.name) })

\* the files gen() makes pages of, and the table row of each
QualifyingFiles == { e \in web.entries : Qualifies(e) }

RowOf(e) == RankIn(QualifyingFiles, e)

\* positions at which sub occurs in s
Occurrences(s, sub) == { i \in 1..Len(s) : MatchAt(s, sub, i) }

\* s without the characters of any occurrence of sub
RECURSIVE Keep(_, _, _)
Keep(s, covered, i) ==
  IF i > Len(s) THEN <<>>
  ELSE (IF i \in covered THEN <<>> ELSE <<s[i]>>) \o Keep(s, covered, i + 1)

WithoutAll(s, sub) ==
  Keep(s, { i + d : i \in Occurrences(s, sub), d \in 0..(Len(sub) - 1) }, 1)

\* s without the characters of the first occurrence of sub
WithoutFirst(s, sub) ==
  IF Occurrences(s, sub) = {} THEN s
  ELSE LET p == CHOOSE i \in Occurrences(s, sub) : \A j \in Occurrences(s, sub) : i <= j
       IN Keep(s, p..(p + Len(sub) - 1), 1)

\* a lookup has just been made
LookupStep == <<lastPath', lastResult'>> # <<lastPath, lastResult>>

(* ---------------------------------- C1 --------------------------------- *)
\* row d answers the request: (a) the URL is the path, or (b) the URL has a
\* dot and what precedes its first dot is the path
Answers(d, path) ==
  \/ d.path = path
  \/ \E i \in 1..Len(d.path) :
       /\ d.path[i] = "."
       /\ \A j \in 1..(i - 1) : d.path[j] # "."
       /\ SubSeq(d.path, 1, i - 1) = path

FirstAnswer(table, path) ==
  IF \E k \in 1..Len(table) : Answers(table[k], path)
    THEN CHOOSE k \in 1..Len(table) :
           /\ Answers(table[k], path)
           /\ \A j \in 1..(k - 1) : ~Answers(table[j], path)
    ELSE 0

\* C1: every findPage call returns the first row of the table that matches
\* the path exactly or by its extensionless prefix, and nullptr exactly when
\* no row matches.
C1_FirstMatchWins ==
  [][LookupStep => lastResult' = FirstAnswer(routerCpp, lastPath')]_vars

C1_Witness ==
  /\ Len(routerCpp) = 2
  /\ routerCpp[1].path = <<"/">> \o Foo \o DotCss
  /\ routerCpp[2].path = <<"/">> \o Foo \o DotJs
  /\ lastPath = <<"/">> \o Foo
  /\ lastResult = 1

(* ---------------------------------- C2 --------------------------------- *)
\* C2 as stated: index.html gets "/", every other qualifying file "/" and
\* its name with the FIRST occurrence of ".nogz" removed.
C2_FirstMarkerRemoved ==
  Generated =>
    \A e \in QualifyingFiles :
      routerCpp[RowOf(e)].path =
        (IF e.name = IndexHtml THEN <<"/">> ELSE <<"/">> \o WithoutFirst(e.name, DotNogz))

\* C2 as amended: index.html gets "/", every other qualifying file "/" and
\* its name with EVERY occurrence of ".nogz" removed (the name unchanged
\* when there is none).
C2_EveryMarkerRemoved ==
  Generated =>
    \A e \in QualifyingFiles :
      routerCpp[RowOf(e)].path =
        (IF e.name = IndexHtml THEN <<"/">> ELSE <<"/">> \o WithoutAll(e.name, DotNogz))

C2_Witness ==
  /\ Generated
  /\ web.entries = { File(<<"a">> \o DotNogz \o DotNogz \o DotJs, SampleRaw) }
  /\ routerCpp[1].path = <<"/","a">> \o DotJs

(* ---------------------------------- C3 --------------------------------- *)
\* the table holds one row per file of S, in ascending filename order, each
\* with the MIME type of the file's extension
TableIsExactly(S) ==
  /\ Len(routerCpp) = Cardinality(S)
  /\ Len(pagesCpp) = Cardinality(S)
  /\ Len(pagesH) = Cardinality(S)
  /\ \A e \in S :
       LET k == RankIn(S, e) IN
         /\ k <= Len(routerCpp)
         /\ routerCpp[k] = PageRouterCpp(<<Page(e, 0)>>)[1]
         /\ \A x \in AssetExtensions :
              HasExtensionAnyCase(e.name, x) => routerCpp[k].mime = MimeOf(x)

RECURSIVE Inflate(_)
Inflate(stream) ==
  IF Len(stream) < 2 THEN <<>>
  ELSE [i \in 1..stream[1] |-> stream[2]] \o Inflate(SubSeq(stream, 3, Len(stream)))

\* gzip.decompress: header and trailer stripped, the stream decoded
GzipDecompress(data) == Inflate(SubSeq(data, 11, Len(data) - 8))

\* C4: for every descriptor, decompressing the stored data gives the raw
\* bytes when gzip is true, the stored data is the raw bytes when gzip is
\* false, the emitted length is the number of stored bytes, and gzip is
\* true unless the filename carries the opt-out marker.
C4_DataConsistent ==
  Generated =>
    \A e \in QualifyingFiles :
      LET k == RowOf(e) IN
        /\ pagesCpp[k].symbol = routerCpp[k].symbol
        /\ pagesH[k] = routerCpp[k].symbol
        /\ routerCpp[k].gzip => GzipDecompress(pagesCpp[k].data) = e.raw
        /\ ~routerCpp[k].gzip => pagesCpp[k].data = e.raw
        /\ pagesCpp[k].len = Len(pagesCpp[k].data)
        /\ Occurrences(e.name, DotNogz) = {} => routerCpp[k].gzip
        /\ ~routerCpp[k].gzip => Occurrences(e.name, DotNogzDot) # {}

C4_Witness ==
  /\ Generated
  /\ web.entries = { File(Foo \o DotJs, <<0, 0>>) }
  /\ routerCpp[1].gzip
  /\ pagesCpp[1].data # <<0, 0>>
  /\ GzipDecompress(pagesCpp[1].data) = <<0, 0>>

(* ---------------------------------- C5 --------------------------------- *)
DirectoryAbsentOrEmpty == ~web.exists \/ web.entries = {}

\* C5: while the asset directory is absent or empty no step changes the
\* three generated files, and a compiler run ends with exit status 0 after
\* the warning.
C5_StaleOutputKept ==
  [][DirectoryAbsentOrEmpty =>
       /\ <<pagesH, pagesCpp, routerCpp>>' = <<pagesH, pagesCpp, routerCpp>>
       /\ (<<exitCode, warned>>' # <<exitCode, warned>> => exitCode' = 0 /\ warned')]_vars

C5_Witness ==
  /\ web.exists
  /\ web.entries = {}
  /\ exitCode = 0
  /\ warned
  /\ Len(routerCpp) = 2
  /\ Len(pagesCpp) = 2
  /\ Len(pagesH) = 2

(* ---------------------------------- C6 --------------------------------- *)
\* C6 as stated: a run over the directory that the generated files were made
\* from, its contents unchanged, writes the same three files again.
C6_Deterministic ==
  [][(Generated /\ Generated' /\ web' = web) =>
       <<pagesH, pagesCpp, routerCpp>>' = <<pagesH, pagesCpp, routerCpp>>]_vars

(* ---------------------------------- C7 --------------------------------- *)
\* the name in upper case with '.' and '-' read as '_'
Normalised(name) ==
  [i \in 1..Len(name) |->
     IF name[i] \in {".", "-"} THEN "_" ELSE ToUpper(name[i])]

\* C7 as stated: the symbols of the table are pairwise distinct.
C7_SymbolsDistinct ==
  Generated =>
    \A i, j \in 1..Len(routerCpp) : i # j => routerCpp[i].symbol # routerCpp[j].symbol

\* C7 as amended: two qualifying files get distinct symbols whenever their
\* names stay distinct after uppercasing and replacing '.' and '-' by '_'.
C7_SymbolsDistinctIfNormalisedDistinct ==
  Generated =>
    \A e1, e2 \in QualifyingFiles :
      Normalised(e1.name) # Normalised(e2.name) =>
        routerCpp[RowOf(e1)].symbol # routerCpp[RowOf(e2)].symbol

C7_Witness ==
  /\ Generated
  /\ web.entries = { File(Foo \o DotJs, SampleRaw), File(Foo \o DotNogz \o DotJs, SampleRaw) }
  /\ routerCpp[1].symbol = <<"F","O","O","_","J","S","_","G","Z">>
  /\ routerCpp[2].symbol = <<"F","O","O","_","N","O","G","Z","_","J","S">>

(* ---------------------------------- C8 --------------------------------- *)
UrlsDistinct ==
  \A i, j \in 1..Len(routerCpp) : i # j => routerCpp[i].path # routerCpp[j].path

\* an earlier row whose URL begins "/." : its extensionless prefix is "/"
DotfileBefore(k) ==
  \E j \in 1..(k - 1) : MatchAt(routerCpp[j].path, <<"/", ".">>, 1)

\* C8 as stated: in a table of pairwise distinct URLs, findPage(d.url)
\* returns d for every row d.
C8_ExactNeverShadowed ==
  [][(LookupStep /\ UrlsDistinct) =>
       \A k \in 1..Len(routerCpp) :
         lastPath' = routerCpp[k].path => lastResult' = k]_vars

\* C8 as amended: in a table of pairwise distinct URLs, findPage(d.url)
\* returns d for every row d, except that findPage("/") returns an earlier
\* row whose URL begins "/." when the table has one before index.html's.
C8_ExactShadowedOnlyByDotfile ==
  [][(LookupStep /\ UrlsDistinct) =>
       \A k \in 1..Len(routerCpp) :
         lastPath' = routerCpp[k].path =>
           IF routerCpp[k].path = <<"/">> /\ DotfileBefore(k)
             THEN lastResult' < k /\ MatchAt(routerCpp[lastResult'].path, <<"/", ".">>, 1)
             ELSE lastResult' = k]_vars

C8_Witness ==
  /\ Len(routerCpp) = 2
  /\ routerCpp[1].path = <<"/">> \o Foo \o DotCss
  /\ routerCpp[2].path = <<"/">>
  /\ lastPath = <<"/">>
  /\ lastResult = 2

(* ---------------------------------- C9 --------------------------------- *)
\* C9 as stated: for every qualifying file other than index.html the URL
\* differs from "/" + filename exactly when the gzip flag is false.
C9_MarkerTestsAgree ==
  Generated =>
    \A e \in QualifyingFiles :
      e.name # IndexHtml =>
        ((routerCpp[RowOf(e)].path # <<"/">> \o e.name) <=> ~routerCpp[RowOf(e)].gzip)

====
